---- MODULE Spec2Model ----
(***************************************************************************)
(* Model of netflix_analyzer.py: load_data, clean_data, the statistics and *)
(* chart steps of main, and binge_analysis (gap-based session             *)
(* segmentation).                                                         *)
(*                                                                        *)
(* A DataFrame is a record [columns, index, rows]: the column labels in   *)
(* order, the index labels in row order, and the rows as functions from   *)
(* column label to cell.  Cells are tagged records, so that NaN, NaT,     *)
(* texts, timestamps and numbers can be compared with one another.        *)
(* Time is counted in hours since 2024-01-01 00:00, a Monday.             *)
(***************************************************************************)
EXTENDS Integers, Sequences, FiniteSets, TLC

VARIABLES exists, csv, pc, error, loaded_file, df, cleaned_df, stats, top_titles,
          charts, df_sorted, session_stats, binge_sessions

\* exists: the candidate files present in the working directory; csv: the
\* frame pd.read_csv gives for the file load_data opens; pc and error: where
\* main is and the exception that ended it; loaded_file: the file load_data
\* reports as loaded; the rest are the locals of main and binge_analysis.
vars == <<exists, csv, pc, error, loaded_file, df, cleaned_df, stats, top_titles,
          charts, df_sorted, session_stats, binge_sessions>>

(* ------------------------------ bounds -------------------------------- *)

\* Rows of the CSV file in the runs of main.
MaxRows == 2
\* Days (after the epoch) the date strings of the CSV file of main name.
MaxDay == 1
\* Records of the sequences binge_analysis is applied to on its own.
MaxRecords == 3
\* Hours (after the epoch) the timestamps of those records reach.
MaxHour == 14

(* ------------------------------ cells --------------------------------- *)

NaN == [kind |-> "nan"]
NaT == [kind |-> "nat"]
None == [kind |-> "none"]

Text(chars) == [kind |-> "text", chars |-> chars]
DateStr(day, hour) == [kind |-> "datestr", day |-> day, hour |-> hour]
Timestamp(hours) == [kind |-> "ts", hours |-> hours]
Timedelta(hours) == [kind |-> "td", hours |-> hours]
Num(n) == [kind |-> "num", n |-> n]
Bool(b) == [kind |-> "bool", b |-> b]

TvTitle == Text(<<"S", "1", "E", "1">>)
MovieTitle == Text(<<"F", "(", "2", "0", "1", "0", ")">>)
GarbageDate == Text(<<"?">>)

IsNull(cell) == cell.kind \in {"nan", "nat"}

(* ---------------------------- load_data ------------------------------- *)

possible_files == <<"NetflixViewingHistory.csv", "netflix-viewing-history.csv",
                    "sample_data.csv", "viewing-history.csv">>

\* A load_data that keeps looking after a match: the last candidate that exists.
RECURSIVE LastExisting(_, _)
LastExisting(files, present) ==
    IF files = <<>> THEN None
    ELSE IF LastExisting(Tail(files), present) # None THEN LastExisting(Tail(files), present)
    ELSE IF Head(files) \in present THEN Text(<<Head(files)>>)
    ELSE None

\* The for loop of load_data: the candidate it reads (and reports as loaded),
\* the first in list order that exists, or None when none exists.
RECURSIVE FirstExisting(_, _)
FirstExisting(files, present) ==
    IF files = <<>> THEN None
    ELSE IF Head(files) \in present THEN Text(<<Head(files)>>)
    ELSE FirstExisting(Tail(files), present)

\* What load_data returns: the frame read from the file found, or None.
load_data(present, content) ==
    IF FirstExisting(possible_files, present) = None THEN None ELSE content

(* ---------------------------- clean_data ------------------------------ *)

column_mapping == << <<"Title", "title">>, <<"Date", "date">>,
                     <<"Profile Name", "profile_name">>,
                     <<"title", "title">>, <<"date", "date">> >>

InSeq(x, s) == \E i \in 1..Len(s) : s[i] = x

\* DataFrame.rename(columns={old: new}) on a frame that has the column old.
Rename(frame, old, new) ==
    LET cols == [i \in 1..Len(frame.columns) |->
                    IF frame.columns[i] = old THEN new ELSE frame.columns[i]]
        src(c) == IF c = new THEN old ELSE c
    IN  [columns |-> cols,
         index |-> frame.index,
         rows |-> [i \in 1..Len(frame.rows) |->
                      [c \in {cols[k] : k \in 1..Len(cols)} |-> frame.rows[i][src(c)]]]]

RECURSIVE StandardizeColumns(_, _)
StandardizeColumns(frame, mapping) ==
    IF mapping = <<>> THEN frame
    ELSE StandardizeColumns(
             IF InSeq(Head(mapping)[1], frame.columns)
             THEN Rename(frame, Head(mapping)[1], Head(mapping)[2])
             ELSE frame,
             Tail(mapping))

\* pd.to_datetime on one cell: a missing value becomes NaT, a date string its
\* timestamp, and any other text does not parse.
Parses(cell) == cell.kind \in {"nan", "datestr"}
ToDatetime(cell) ==
    IF cell.kind = "datestr" THEN Timestamp(cell.day * 24 + cell.hour) ELSE NaT

DaysInMonth == <<31, 29, 31, 30, 31, 30, 31, 31, 30, 31, 30, 31>>
RECURSIVE MonthOfDay(_, _)
MonthOfDay(dayOfYear, m) ==
    IF m = 12 \/ dayOfYear < DaysInMonth[m] THEN m
    ELSE MonthOfDay(dayOfYear - DaysInMonth[m], m + 1)

DayNames == <<"Monday", "Tuesday", "Wednesday", "Thursday", "Friday",
              "Saturday", "Sunday">>

Year(ts) == IF ts = NaT THEN NaN ELSE Num(2024 + (ts.hours \div 24) \div 366)
Month(ts) == IF ts = NaT THEN NaN ELSE Num(MonthOfDay((ts.hours \div 24) % 366, 1))
DayName(ts) == IF ts = NaT THEN NaN ELSE Text(<<DayNames[((ts.hours \div 24) % 7) + 1]>>)
Hour(ts) == IF ts = NaT THEN NaN ELSE Num(ts.hours % 24)

Digits == {"0", "1", "2", "3", "4", "5", "6", "7", "8", "9"}

\* Series.str.contains(r'\(\d{4}\)', na=False) on one cell.
ContainsYear(cell) ==
    /\ cell.kind = "text"
    /\ \E i \in 1..Len(cell.chars) :
          /\ i + 5 <= Len(cell.chars)
          /\ cell.chars[i] = "("
          /\ \A k \in 1..4 : cell.chars[i + k] \in Digits
          /\ cell.chars[i + 5] = ")"

DerivedColumns == <<"year", "month", "day_of_week", "hour", "is_movie", "is_tv_show">>

RECURSIVE AppendMissing(_, _)
AppendMissing(cols, new) ==
    IF new = <<>> THEN cols
    ELSE AppendMissing(IF InSeq(Head(new), cols) THEN cols ELSE Append(cols, Head(new)),
                       Tail(new))

\* The exception clean_data raises on the frame, or "none".
CleanError(frame) ==
    LET std == StandardizeColumns(frame, column_mapping)
    IN  IF ~InSeq("date", std.columns) THEN "KeyError"
        ELSE IF \E i \in 1..Len(std.rows) : ~Parses(std.rows[i]["date"]) THEN "DateParseError"
        ELSE IF ~InSeq("title", std.columns) THEN "KeyError"
        ELSE "none"

\* One row of clean_df: the date converted and the derived columns assigned.
CleanRow(row, cols) ==
    LET ts == ToDatetime(row["date"])
    IN  [c \in {cols[k] : k \in 1..Len(cols)} |->
            CASE c = "date" -> ts
              [] c = "year" -> Year(ts)
              [] c = "month" -> Month(ts)
              [] c = "day_of_week" -> DayName(ts)
              [] c = "hour" -> Hour(ts)
              [] c = "is_movie" -> Bool(ContainsYear(row["title"]))
              [] c = "is_tv_show" -> Bool(~ContainsYear(row["title"]))
              [] OTHER -> row[c]]

\* A clean_data that drops the rows whose date is missing.
clean_data_dropna(frame) ==
    LET std == StandardizeColumns(frame, column_mapping)
        cols == AppendMissing(std.columns, DerivedColumns)
        kept == {i \in 1..Len(std.rows) : std.rows[i]["date"].kind = "datestr"}
        F[i \in 0..Len(std.rows)] ==
            IF i = 0 THEN <<>> ELSE IF i \in kept THEN Append(F[i - 1], i) ELSE F[i - 1]
        pos == F[Len(std.rows)]
    IN  [columns |-> cols,
         index |-> [k \in 1..Len(pos) |-> std.index[pos[k]]],
         rows |-> [k \in 1..Len(pos) |-> CleanRow(std.rows[pos[k]], cols)]]

\* The frame clean_data returns when it raises nothing.
clean_data(frame) ==
    LET std == StandardizeColumns(frame, column_mapping)
        cols == AppendMissing(std.columns, DerivedColumns)
    IN  [columns |-> cols,
         index |-> std.index,
         rows |-> [i \in 1..Len(std.rows) |-> CleanRow(std.rows[i], cols)]]

(* -------------------------- show_basic_stats --------------------------- *)

Rows(frame) == 1..Len(frame.rows)
Column(frame, c) == [i \in Rows(frame) |-> frame.rows[i][c]]

\* Series.min() and Series.max() of a datetime column: missing values are
\* skipped, and the result is NaT when nothing is left.
SeriesMin(col) ==
    LET valid == {i \in 1..Len(col) : ~IsNull(col[i])}
    IN  IF valid = {} THEN NaT
        ELSE col[CHOOSE i \in valid : \A j \in valid : col[i].hours <= col[j].hours]
SeriesMax(col) ==
    LET valid == {i \in 1..Len(col) : ~IsNull(col[i])}
    IN  IF valid = {} THEN NaT
        ELSE col[CHOOSE i \in valid : \A j \in valid : col[i].hours >= col[j].hours]

\* df['date'].dt.date.nunique(): the distinct calendar days, NaT not counted.
ActiveDays(frame) ==
    Cardinality({frame.rows[i]["date"].hours \div 24 :
                    i \in {k \in Rows(frame) : ~IsNull(frame.rows[k]["date"])}})

CountTrue(frame, c) == Cardinality({i \in Rows(frame) : frame.rows[i][c].b})

\* The exception show_basic_stats raises on the frame, or "none": strftime
\* of NaT (line 81), then the division by active_days (line 87).
StatsError(frame) ==
    IF SeriesMin(Column(frame, "date")) = NaT THEN "NaTStrftimeError"
    ELSE IF ActiveDays(frame) = 0 THEN "ZeroDivisionError"
    ELSE "none"

show_basic_stats(frame) ==
    [total_views |-> Len(frame.rows),
     date_min |-> SeriesMin(Column(frame, "date")),
     date_max |-> SeriesMax(Column(frame, "date")),
     active_days |-> ActiveDays(frame),
     movies |-> CountTrue(frame, "is_movie"),
     tv_shows |-> CountTrue(frame, "is_tv_show")]

(* --------------------------- find_top_titles -------------------------- *)

\* df['title'].value_counts().head(top_n): the count of every title that is
\* not missing, cut to the top_n most frequent (a title stays when fewer than
\* top_n titles are more frequent).
ValueCounts(frame) ==
    LET titles == {frame.rows[i]["title"] : i \in {k \in Rows(frame) : ~IsNull(frame.rows[k]["title"])}}
    IN  [t \in titles |-> Cardinality({i \in Rows(frame) : frame.rows[i]["title"] = t})]

find_top_titles(frame, top_n) ==
    LET counts == ValueCounts(frame)
        kept == {t \in DOMAIN counts :
                    Cardinality({u \in DOMAIN counts : counts[u] > counts[t]}) < top_n}
    IN  [kind |-> "series", values |-> [t \in kept |-> counts[t]]]

(* ---------------------------- binge_analysis -------------------------- *)

binge_threshold == Timedelta(6)

Injective(p) == \A i, j \in DOMAIN p : p[i] = p[j] => i = j

\* The orders df.sort_values('date') can produce: the positions of the rows,
\* those with a date first, ascending, and those without a date last in their
\* original order.  sort_values sorts with kind='quicksort', which is not a
\* stable sort: rows with equal dates come out in any order.
SortOutcomes(frame) ==
    LET n == Len(frame.rows)
        date(i) == frame.rows[i]["date"]
    IN  {p \in [1..n -> 1..n] :
            /\ Injective(p)
            /\ \A i, j \in 1..n : i < j =>
                  \/ /\ ~IsNull(date(p[i])) /\ ~IsNull(date(p[j]))
                     /\ date(p[i]).hours <= date(p[j]).hours
                  \/ /\ ~IsNull(date(p[i])) /\ IsNull(date(p[j]))
                  \/ /\ IsNull(date(p[i])) /\ IsNull(date(p[j]))
                     /\ p[i] < p[j]}

\* Series.diff() of the date column at position i of the sorted rows.
TimeDiff(dates, i) ==
    IF i = 1 \/ IsNull(dates[i]) \/ IsNull(dates[i - 1]) THEN NaT
    ELSE Timedelta(dates[i].hours - dates[i - 1].hours)

\* A threshold test that is inclusive: time_diff >= binge_threshold.
NewSessionInclusive(diff) == ~IsNull(diff) /\ diff.hours >= binge_threshold.hours

\* time_diff > binge_threshold: a comparison with NaT is False.
NewSession(diff) == ~IsNull(diff) /\ diff.hours > binge_threshold.hours

\* Series.cumsum() of the boolean column, at position i.
CumSum(flags, i) == Cardinality({j \in 1..i : flags[j]})

\* df_sorted after lines 181-189, for the sort order p.
SortedFrame(frame, p) ==
    LET n == Len(frame.rows)
        dates == [i \in 1..n |-> frame.rows[p[i]]["date"]]
        diffs == [i \in 1..n |-> TimeDiff(dates, i)]
        flags == [i \in 1..n |-> NewSession(diffs[i])]
        cols == AppendMissing(frame.columns, <<"time_diff", "new_session", "session_id">>)
    IN  [columns |-> cols,
         index |-> [i \in 1..n |-> frame.index[p[i]]],
         rows |-> [i \in 1..n |->
                     [c \in {cols[k] : k \in 1..Len(cols)} |->
                         CASE c = "time_diff" -> diffs[i]
                           [] c = "new_session" -> Bool(flags[i])
                           [] c = "session_id" -> Num(CumSum(flags, i))
                           [] OTHER -> frame.rows[p[i]][c]]]]

\* The increasing sequence of the elements of a finite set of integers.
RECURSIVE SortedSeq(_)
SortedSeq(S) ==
    IF S = {} THEN <<>>
    ELSE LET m == CHOOSE x \in S : \A y \in S : x <= y
         IN  <<m>> \o SortedSeq(S \ {m})

SessionColumns == <<"views_count", "session_start", "session_end", "duration_hours">>

\* (session_end - session_start).dt.total_seconds() / 3600
DurationHours(start, end) ==
    IF IsNull(start) \/ IsNull(end) THEN NaN ELSE Num(end.hours - start.hours)

\* session_stats after lines 192-199: one row per session_id, in increasing
\* order of the id; 'count' counts the titles that are not missing, and
\* 'min' and 'max' skip the dates that are missing.
SessionStats(sorted) ==
    LET ids == SortedSeq({sorted.rows[i]["session_id"].n : i \in Rows(sorted)})
        members(s) == {i \in Rows(sorted) : sorted.rows[i]["session_id"].n = s}
        dates(s) == [k \in 1..Len(sorted.rows) |->
                        IF k \in members(s) THEN sorted.rows[k]["date"] ELSE NaT]
        start(s) == SeriesMin(dates(s))
        end(s) == SeriesMax(dates(s))
    IN  [columns |-> SessionColumns,
         index |-> ids,
         rows |-> [k \in 1..Len(ids) |->
                     [views_count |-> Num(Cardinality({i \in members(ids[k]) :
                                                          ~IsNull(sorted.rows[i]["title"])})),
                      session_start |-> start(ids[k]),
                      session_end |-> end(ids[k]),
                      duration_hours |-> DurationHours(start(ids[k]), end(ids[k]))]]]

\* frame[mask]: the rows at the kept positions, with their index labels.
SelectSeq2(s, keep) ==
    LET F[i \in 0..Len(s)] ==
            IF i = 0 THEN <<>>
            ELSE IF i \in keep THEN Append(F[i - 1], s[i]) ELSE F[i - 1]
    IN  F[Len(s)]

\* session_stats[session_stats['views_count'] > 1], which binge_analysis returns.
BingeSessions(sessions) ==
    LET keep == {k \in Rows(sessions) : sessions.rows[k]["views_count"].n > 1}
    IN  [columns |-> sessions.columns,
         index |-> SelectSeq2(sessions.index, keep),
         rows |-> SelectSeq2(sessions.rows, keep)]

(* ------------------------------- inputs ------------------------------- *)

Headers == {<<"Title", "Date">>, <<"title", "date">>, <<"Title">>}

TitleCells == {TvTitle, MovieTitle, NaN}
\* The dates of a Netflix export name a day, without a time of day.
DateCells == {NaN, GarbageDate} \cup {DateStr(d, 0) : d \in 0..MaxDay}

CellsOf(column, titles, dates) == IF column \in {"Title", "title"} THEN titles ELSE dates

\* The rows a CSV file can hold under the header.
RowSet(header, titles, dates) ==
    LET cols == {header[k] : k \in 1..Len(header)}
    IN  {r \in [cols -> titles \cup dates] : \A c \in cols : r[c] \in CellsOf(c, titles, dates)}

\* pd.read_csv: the frame of the rows under the header, with a RangeIndex.
read_csv(header, rows) ==
    [columns |-> header, index |-> [i \in 1..Len(rows) |-> i - 1], rows |-> rows]

(* -------------------------------- main -------------------------------- *)

Init ==
    /\ exists \in SUBSET {possible_files[k] : k \in 1..Len(possible_files)}
    /\ \E h \in Headers : \E n \in 0..MaxRows : \E rows \in [1..n -> RowSet(h, TitleCells, DateCells)] :
          csv = read_csv(h, rows)
    /\ pc = "load"
    /\ error = "none"
    /\ loaded_file = None
    /\ df = None
    /\ cleaned_df = None
    /\ stats = None
    /\ top_titles = None
    /\ charts = {}
    /\ df_sorted = None
    /\ session_stats = None
    /\ binge_sessions = None

\* Lines 220-222: df = load_data(); main returns when it is None.
LoadData ==
    /\ pc = "load"
    /\ loaded_file' = FirstExisting(possible_files, exists)
    /\ df' = load_data(exists, csv)
    /\ pc' = IF df' = None THEN "done" ELSE "clean"
    /\ UNCHANGED <<exists, csv, error, cleaned_df, stats, top_titles, charts,
                   df_sorted, session_stats, binge_sessions>>

\* Line 225: cleaned_df = clean_data(df); an exception ends the run.
CleanData ==
    /\ pc = "clean"
    /\ IF CleanError(df) = "none"
       THEN /\ cleaned_df' = clean_data(df)
            /\ pc' = "stats"
            /\ error' = error
       ELSE /\ cleaned_df' = cleaned_df
            /\ pc' = "raised"
            /\ error' = CleanError(df)
    /\ UNCHANGED <<exists, csv, loaded_file, df, stats, top_titles, charts,
                   df_sorted, session_stats, binge_sessions>>

\* Line 228: show_basic_stats(cleaned_df).
ShowBasicStats ==
    /\ pc = "stats"
    /\ IF StatsError(cleaned_df) = "none"
       THEN /\ stats' = show_basic_stats(cleaned_df)
            /\ pc' = "top"
            /\ error' = error
       ELSE /\ stats' = stats
            /\ pc' = "raised"
            /\ error' = StatsError(cleaned_df)
    /\ UNCHANGED <<exists, csv, loaded_file, df, cleaned_df, top_titles, charts,
                   df_sorted, session_stats, binge_sessions>>

\* Line 231: top_titles = find_top_titles(cleaned_df, 8).
FindTopTitles ==
    /\ pc = "top"
    /\ top_titles' = find_top_titles(cleaned_df, 8)
    /\ pc' = "viz"
    /\ UNCHANGED <<exists, csv, loaded_file, error, df, cleaned_df, stats, charts,
                   df_sorted, session_stats, binge_sessions>>

\* Line 234: create_visualizations(cleaned_df) saves the chart file.
CreateVisualizations ==
    /\ pc = "viz"
    /\ charts' = charts \cup {"netflix_analysis.png"}
    /\ pc' = "timeline"
    /\ UNCHANGED <<exists, csv, loaded_file, error, df, cleaned_df, stats, top_titles,
                   df_sorted, session_stats, binge_sessions>>

\* Line 237: viewing_timeline(cleaned_df) shows a chart and keeps nothing.
ViewingTimeline ==
    /\ pc = "timeline"
    /\ pc' = "binge"
    /\ UNCHANGED <<exists, csv, loaded_file, error, df, cleaned_df, stats, top_titles, charts,
                   df_sorted, session_stats, binge_sessions>>

\* A binge_analysis that sorts and annotates its argument in place.
ArgumentSortedInPlace(frame, sorted) == sorted

\* The frame the caller's argument is after binge_analysis(frame): the function
\* works on df_sorted, a sorted copy (line 181).
ArgumentAfterBinge(frame, sorted) == frame

\* Line 240: binge_sessions = binge_analysis(cleaned_df).
BingeAnalysis ==
    /\ pc = "binge"
    /\ \E p \in SortOutcomes(cleaned_df) :
          /\ df_sorted' = SortedFrame(cleaned_df, p)
          /\ session_stats' = SessionStats(df_sorted')
          /\ binge_sessions' = BingeSessions(session_stats')
          /\ cleaned_df' = ArgumentAfterBinge(cleaned_df, df_sorted')
    /\ pc' = "done"
    /\ UNCHANGED <<exists, csv, loaded_file, error, df, stats, top_titles, charts>>

Next ==
    \/ LoadData
    \/ CleanData
    \/ ShowBasicStats
    \/ FindTopTitles
    \/ CreateVisualizations
    \/ ViewingTimeline
    \/ BingeAnalysis

Spec == Init /\ [][Next]_vars

(* ---------------- binge_analysis applied to a record sequence ---------- *)

\* The timestamps of the records carry a time of day.
HourCells == {NaN} \cup {DateStr(0, h) : h \in 0..MaxHour}

\* binge_analysis(clean_data(raw)) for every raw frame clean_data accepts.
InitBinge ==
    /\ exists = {possible_files[3]}
    /\ \E n \in 0..MaxRecords : \E rows \in [1..n -> RowSet(<<"Title", "Date">>, {TvTitle}, HourCells)] :
          csv = read_csv(<<"Title", "Date">>, rows)
    /\ CleanError(csv) = "none"
    /\ pc = "binge"
    /\ error = "none"
    /\ loaded_file = Text(<<possible_files[3]>>)
    /\ df = csv
    /\ cleaned_df = clean_data(csv)
    /\ stats = None
    /\ top_titles = None
    /\ charts = {}
    /\ df_sorted = None
    /\ session_stats = None
    /\ binge_sessions = None

NextBinge == BingeAnalysis

SpecBinge == InitBinge /\ [][NextBinge]_vars

(* ------------------------------- claims ------------------------------- *)

SessionId(i) == df_sorted.rows[i]["session_id"].n
SortedDate(i) == df_sorted.rows[i]["date"]
HasDate(i) == ~IsNull(SortedDate(i))
MembersOf(s) == {i \in Rows(df_sorted) : SessionId(i) = s}

RECURSIVE SumViews(_)
SumViews(rows) ==
    IF rows = <<>> THEN 0 ELSE Head(rows)["views_count"].n + SumViews(Tail(rows))

\* Every input record is exactly one row of df_sorted, the dated rows are in
\* ascending order, and the rows of a session are contiguous.
SessionsAreContiguousRuns ==
    df_sorted # None =>
        /\ Len(df_sorted.rows) = Len(cleaned_df.rows)
        /\ \A k \in Rows(cleaned_df) :
              Cardinality({i \in Rows(df_sorted) : df_sorted.index[i] = cleaned_df.index[k]}) = 1
        /\ \A i \in Rows(df_sorted) : df_sorted.rows[i]["session_id"].kind = "num"
        /\ \A i, j \in Rows(df_sorted) :
              (i < j /\ HasDate(i) /\ HasDate(j)) => SortedDate(i).hours <= SortedDate(j).hours
        /\ \A i, j, k \in Rows(df_sorted) :
              (i < j /\ j < k /\ SessionId(i) = SessionId(k)) => SessionId(j) = SessionId(i)

C2_NewSessionIffGapOverThreshold ==
    df_sorted # None =>
        \A i \in Rows(df_sorted) :
            LET starts == IF i = 1 THEN SessionId(1) # 0 ELSE SessionId(i) = SessionId(i - 1) + 1
                stays == IF i = 1 THEN SessionId(1) = 0 ELSE SessionId(i) = SessionId(i - 1)
                over == /\ i > 1
                        /\ HasDate(i)
                        /\ HasDate(i - 1)
                        /\ SortedDate(i).hours - SortedDate(i - 1).hours > 6
            IN  /\ starts <=> over
                /\ stays <=> ~over
                /\ df_sorted.rows[i]["new_session"].b <=> over

\* Three sorted records with a gap of exactly 6 hours inside a session and a
\* gap of 7 hours that starts the next one.
C2_Witness ==
    /\ df_sorted # None
    /\ Len(df_sorted.rows) = 3
    /\ \E i, j \in 2..3 :
          /\ HasDate(i) /\ HasDate(i - 1) /\ HasDate(j) /\ HasDate(j - 1)
          /\ SortedDate(i).hours - SortedDate(i - 1).hours = 6
          /\ SessionId(i) = SessionId(i - 1)
          /\ SortedDate(j).hours - SortedDate(j - 1).hours = 7
          /\ SessionId(j) = SessionId(j - 1) + 1

\* C3: the table binge_analysis returns has one row for every session,
\* sessions of a single record included; for an input of one record it is
\* one session with view count 1 and duration 0 hours.
C3_ReturnsEverySession ==
    binge_sessions # None =>
        /\ binge_sessions.index = SortedSeq({SessionId(i) : i \in Rows(df_sorted)})
        /\ Len(cleaned_df.rows) = 1 =>
              /\ Len(binge_sessions.rows) = 1
              /\ binge_sessions.rows[1]["views_count"] = Num(1)
              /\ binge_sessions.rows[1]["duration_hours"] = Num(0)

HasTitleAndDate(frame) ==
    /\ InSeq("Title", frame.columns) \/ InSeq("title", frame.columns)
    /\ InSeq("Date", frame.columns) \/ InSeq("date", frame.columns)

\* C4: when the file has a title and a date column and zero rows, the run of
\* main raises nothing: clean_data gives an empty record sequence,
\* binge_analysis an empty session table, and no aggregate fails.
C4_EmptyInputCompletes ==
    (df # None /\ HasTitleAndDate(df) /\ Len(df.rows) = 0) =>
        /\ pc # "raised"
        /\ error = "none"
        /\ cleaned_df # None => Len(cleaned_df.rows) = 0
        /\ session_stats # None => Len(session_stats.rows) = 0

RawDate(row) == IF "date" \in DOMAIN row THEN row["date"] ELSE row["Date"]
RawTitle(row) == IF "title" \in DOMAIN row THEN row["title"] ELSE row["Title"]

\* C5: when a row's date is not a valid date-time (a missing date included),
\* clean_data fails and the run ends before any later step; so every record a
\* later step sees has a valid timestamp.
C5_InvalidDateEndsRun ==
    /\ (df # None /\ HasTitleAndDate(df)
           /\ \E i \in Rows(df) : RawDate(df.rows[i]).kind # "datestr") =>
          /\ pc \in {"clean", "raised"}
          /\ pc = "raised" => error = "DateParseError"
          /\ cleaned_df = None
    /\ cleaned_df # None => \A i \in Rows(cleaned_df) : cleaned_df.rows[i]["date"].kind = "ts"

\* C6: load_data loads the first candidate, in list order, that exists and
\* never a later one; when none exists it returns None and main returns
\* without running any later step and without raising.
C6_FirstExistingFileWins ==
    pc # "load" =>
        LET found == {k \in 1..Len(possible_files) : possible_files[k] \in exists}
        IN  IF found = {}
            THEN /\ loaded_file = None /\ df = None
                 /\ pc = "done" /\ error = "none"
                 /\ cleaned_df = None /\ stats = None /\ top_titles = None
                 /\ charts = {} /\ df_sorted = None /\ session_stats = None
                 /\ binge_sessions = None
            ELSE /\ \E k \in found :
                       /\ \A j \in found : k <= j
                       /\ loaded_file = Text(<<possible_files[k]>>)
                 /\ df = csv

\* The first candidate is missing, the second and the fourth exist, and the
\* second was loaded.
C6_Witness ==
    /\ pc # "load"
    /\ possible_files[1] \notin exists
    /\ possible_files[4] \in exists
    /\ loaded_file = Text(<<possible_files[2]>>)
    /\ df = csv

C8_CleanKeepsRowsInOrder ==
    cleaned_df # None =>
        /\ Len(cleaned_df.rows) = Len(df.rows)
        /\ cleaned_df.index = df.index
        /\ \A i \in Rows(df) :
              /\ cleaned_df.rows[i]["title"] = RawTitle(df.rows[i])
              /\ cleaned_df.rows[i]["date"] =
                    IF RawDate(df.rows[i]).kind = "datestr"
                    THEN Timestamp(RawDate(df.rows[i]).day * 24 + RawDate(df.rows[i]).hour)
                    ELSE NaT

\* clean_data returned two records with different titles, the first of them
\* later in time than the second.
C8_Witness ==
    /\ cleaned_df # None
    /\ pc = "stats"
    /\ Len(cleaned_df.rows) = 2
    /\ cleaned_df.rows[1]["date"].kind = "ts"
    /\ cleaned_df.rows[2]["date"].kind = "ts"
    /\ cleaned_df.rows[1]["date"].hours > cleaned_df.rows[2]["date"].hours
    /\ cleaned_df.rows[1]["title"] # cleaned_df.rows[2]["title"]

\* C9: the sort of binge_analysis is stable: two records with equal
\* timestamps keep their input order in the sorted sequence.
C9_SortIsStable ==
    df_sorted # None =>
        \A i, j \in Rows(df_sorted) :
            (i < j /\ HasDate(i) /\ HasDate(j) /\ SortedDate(i) = SortedDate(j)) =>
                df_sorted.index[i] < df_sorted.index[j]

\* C10: the frames are read-only for their consumers: clean_data leaves the
\* raw frame as it was read, and show_basic_stats, find_top_titles and
\* binge_analysis leave the frame clean_data returned as it was returned (no
\* row moved, no column added).
C10_FramesAreReadOnly ==
    /\ df # None => df = csv
    /\ cleaned_df # None => cleaned_df = clean_data(df)

\* binge_analysis has run on two records it had to reorder, and has added its
\* columns to its own copy.
C10_Witness ==
    /\ pc = "done"
    /\ df_sorted # None
    /\ stats # None
    /\ top_titles # None
    /\ df_sorted.index # cleaned_df.index
    /\ InSeq("session_id", df_sorted.columns)

====
